---- MODULE Spec2Model ----
(***************************************************************************)
(* directus-auth-manager: the credential store (config.ts) and the         *)
(* validator (validator.ts) as state machines.                             *)
(*                                                                         *)
(* A JavaScript object is modelled by its own enumerable properties, a     *)
(* sequence of <<key, value>> pairs in OrdinaryOwnPropertyKeys order       *)
(* (array-index keys ascending, then string keys in insertion order), and  *)
(* by the properties every plain object inherits from Object.prototype.    *)
(***************************************************************************)
EXTENDS Integers, Sequences, FiniteSets, TLC

VARIABLES
    dir,      \* CONFIG_DIR exists on disk
    file,     \* content of CONFIG_FILE
    op,       \* the last completed call of a store function, with its outcome
    rt,       \* a caller's own document c, and whether the file holds writeConfig(c)
    v,        \* one validateCredentials call
    all,      \* one validateAllCredentials call
    lib,      \* the library call (lib.ts) made since the last store mutation, if any
    procs     \* two processes, each at most inside one store mutation

storeVars == <<dir, file, op, rt>>
vars == <<dir, file, op, rt, v, all, lib, procs>>

(***************************************************************************)
(* Bounds and input pools                                                  *)
(***************************************************************************)
\* largest number of credential sets the store is grown to
MaxSets == 3

\* largest number of credential sets in a document a caller builds itself
MaxMembers == 2

\* largest number of entries of a mapping given to validateAllCredentials
MaxBatch == 2

\* JSON null / JS null
NULL == "<null>"

\* Names a caller may pass.  "7" is an array-index key, "__proto__" and
\* "constructor" are properties every plain object inherits.
Names == {"a", "b", "7", "__proto__", "constructor"}

\* A url is the sequence of its pieces, each "/" at the end a piece of its own.
CredsPool == { [url |-> <<"https://one.example">>, token |-> "t1"],
               [url |-> <<"https://two.example", "/", "/">>, token |-> "t2"] }

(***************************************************************************)
(* JavaScript objects                                                      *)
(***************************************************************************)
\* properties of Object.prototype among the modelled names (all truthy)
ObjectPrototypeKeys == {"__proto__", "constructor"}

\* canonical numeric value of the array-index keys among the modelled names
ArrayIndexOf == ("7" :> 7)

IsArrayIndex(k) == k \in DOMAIN ArrayIndexOf

HasOwn(obj, k) == \E i \in 1..Len(obj) : obj[i][1] = k

OwnIndex(obj, k) == CHOOSE i \in 1..Len(obj) : obj[i][1] = k

InsertAt(obj, i, e) == SubSeq(obj, 1, i - 1) \o <<e>> \o SubSeq(obj, i, Len(obj))

\* CreateDataProperty: an own property, whatever the prototype holds
DefineOwn(obj, k, x) ==
    IF HasOwn(obj, k)
    THEN [obj EXCEPT ![OwnIndex(obj, k)] = <<k, x>>]
    ELSE IF IsArrayIndex(k)
         THEN InsertAt(obj,
                       1 + Cardinality({i \in 1..Len(obj) :
                                          /\ IsArrayIndex(obj[i][1])
                                          /\ ArrayIndexOf[obj[i][1]] < ArrayIndexOf[k]}),
                       <<k, x>>)
         ELSE Append(obj, <<k, x>>)

\* obj[k] = x with x an object: an own property is overwritten; otherwise the
\* inherited __proto__ setter replaces the prototype and adds no own property;
\* any other key becomes a new own property.
SetProp(obj, k, x) ==
    IF HasOwn(obj, k) THEN DefineOwn(obj, k, x)
    ELSE IF k = "__proto__" THEN obj
    ELSE DefineOwn(obj, k, x)

\* truthiness of obj[k]: own values are objects; inherited ones are the
\* prototype object (__proto__) or a function (constructor)
GetIsTruthy(obj, k) == HasOwn(obj, k) \/ k \in ObjectPrototypeKeys

\* delete obj[k]
DeleteProp(obj, k) == SelectSeq(obj, LAMBDA e : e[1] # k)

\* Object.keys(obj)
ObjectKeys(obj) == [i \in 1..Len(obj) |-> obj[i][1]]

KeySet(obj) == {obj[i][1] : i \in 1..Len(obj)}

(***************************************************************************)
(* The file and JSON                                                       *)
(***************************************************************************)
\* no file
Missing == [kind |-> "missing", active |-> NULL, members |-> <<>>]
\* text that is not JSON
Garbage == [kind |-> "garbage", active |-> NULL, members |-> <<>>]
\* valid JSON that is not a {active, credentials} object: the text {}
OtherJSON == [kind |-> "other", active |-> NULL, members |-> <<>>]
\* the text of a document: its active value and the members of credentials
\* in the order they are written
JSONText(active, members) == [kind |-> "json", active |-> active, members |-> members]

getDefaultConfig == [shape |-> "config", active |-> NULL, credentials |-> <<>>]

\* the value JSON.parse gives for the text {}: an object without credentials
BareObject == [shape |-> "other", active |-> NULL, credentials |-> <<>>]

JSONparseMember_bySet(parsed, k, x) == SetProp(parsed, k, x)

\* JSON.parse adds each member with CreateDataProperty
JSONparseMember(parsed, k, x) == DefineOwn(parsed, k, x)

RECURSIVE JSONparseMembers(_)
JSONparseMembers(ms) ==
    IF ms = <<>> THEN <<>>
    ELSE JSONparseMember(JSONparseMembers(SubSeq(ms, 1, Len(ms) - 1)),
                         ms[Len(ms)][1], ms[Len(ms)][2])

JSONparse(f) ==
    CASE f.kind = "json"  -> [threw |-> FALSE,
                              value |-> [shape |-> "config", active |-> f.active,
                                         credentials |-> JSONparseMembers(f.members)]]
      [] f.kind = "other" -> [threw |-> FALSE, value |-> BareObject]
      [] OTHER            -> [threw |-> TRUE, value |-> BareObject]

JSONstringify(config) ==
    IF config.shape = "config"
    THEN JSONText(config.active, config.credentials)
    ELSE OtherJSON

\* readConfig: [threw, value]
readConfig(f) ==
    IF f.kind = "missing" THEN [threw |-> FALSE, value |-> getDefaultConfig]
    ELSE IF JSONparse(f).threw
         THEN [threw |-> FALSE, value |-> getDefaultConfig]
         ELSE [threw |-> FALSE, value |-> JSONparse(f).value]

\* ensureConfigDir: the directory exists afterwards
ensureConfigDir(d) == TRUE

\* writeConfig: the new file content
writeConfig(config) == JSONstringify(config)

(***************************************************************************)
(* Store functions: each gives the outcome of one call on file content f   *)
(*   file  - the content afterwards      wrote - writeFileSync was called  *)
(*   ret   - "void", "true", "false"     threw - a TypeError escaped       *)
(***************************************************************************)
Outcome(f, ret, wrote, threw) ==
    [file |-> f, ret |-> ret, wrote |-> wrote, threw |-> threw]

\* config.credentials[...] on a value without credentials
TypeError(f) == Outcome(f, "void", FALSE, TRUE)

addCredentials(f, name, credentials) ==
    LET config == readConfig(f).value
        upserted == SetProp(config.credentials, name, credentials)
        active == IF Len(ObjectKeys(upserted)) = 1 THEN name ELSE config.active
    IN  IF config.shape # "config" THEN TypeError(f)
        ELSE Outcome(writeConfig([config EXCEPT !.credentials = upserted,
                                                !.active = active]),
                     "void", TRUE, FALSE)

removeCredentials_staleKeys(f, name) ==
    LET config == readConfig(f).value
        deleted == DeleteProp(config.credentials, name)
        remaining == ObjectKeys(config.credentials)
        active == IF config.active = name
                  THEN (IF Len(remaining) > 0 THEN remaining[1] ELSE NULL)
                  ELSE config.active
    IN  IF config.shape # "config" THEN TypeError(f)
        ELSE IF ~GetIsTruthy(config.credentials, name)
             THEN Outcome(f, "false", FALSE, FALSE)
             ELSE Outcome(writeConfig([config EXCEPT !.credentials = deleted,
                                                     !.active = active]),
                          "true", TRUE, FALSE)

removeCredentials(f, name) ==
    LET config == readConfig(f).value
        deleted == DeleteProp(config.credentials, name)
        remaining == ObjectKeys(deleted)
        active == IF config.active = name
                  THEN (IF Len(remaining) > 0 THEN remaining[1] ELSE NULL)
                  ELSE config.active
    IN  IF config.shape # "config" THEN TypeError(f)
        ELSE IF ~GetIsTruthy(config.credentials, name)
             THEN Outcome(f, "false", FALSE, FALSE)
             ELSE Outcome(writeConfig([config EXCEPT !.credentials = deleted,
                                                     !.active = active]),
                          "true", TRUE, FALSE)

setActive(f, name) ==
    LET config == readConfig(f).value
    IN  IF config.shape # "config" THEN TypeError(f)
        ELSE IF ~GetIsTruthy(config.credentials, name)
             THEN Outcome(f, "false", FALSE, FALSE)
             ELSE Outcome(writeConfig([config EXCEPT !.active = name]),
                          "true", TRUE, FALSE)

(***************************************************************************)
(* Actions                                                                 *)
(***************************************************************************)
NoCreds == [url |-> <<>>, token |-> ""]

OpRecord(fn, name, credentials, pre, out) ==
    [fn |-> fn, name |-> name, credentials |-> credentials, pre |-> pre,
     ret |-> out.ret, wrote |-> out.wrote, threw |-> out.threw,
     value |-> getDefaultConfig]

NoOp == [fn |-> "none", name |-> NULL, credentials |-> NoCreds, pre |-> Missing,
         ret |-> "void", wrote |-> FALSE, threw |-> FALSE,
         value |-> getDefaultConfig]

NoSelection == [isNull |-> TRUE, name |-> NULL, url |-> <<>>, token |-> "",
                source |-> ""]

\* prompted: inquirer.prompt was called during the call
LibIdle == [fn |-> "none", skipConfirmation |-> FALSE, prompted |-> FALSE,
            pre |-> Missing, ret |-> NoSelection]

\* every store function starts with readConfig, whose ensureConfigDir
\* creates the directory
Perform(fn, name, credentials, out) ==
    /\ dir' = ensureConfigDir(dir)
    /\ file' = out.file
    /\ op' = OpRecord(fn, name, credentials, file, out)
    /\ rt' = [rt EXCEPT !.written = FALSE]
    /\ lib' = LibIdle
    /\ UNCHANGED <<v, all, procs>>

StoredCount(f) == Len(readConfig(f).value.credentials)

AddCredentialsCall ==
    \E name \in Names, credentials \in CredsPool :
        /\ \/ StoredCount(file) < MaxSets
           \/ HasOwn(readConfig(file).value.credentials, name)
        /\ Perform("addCredentials", name, credentials,
                   addCredentials(file, name, credentials))

RemoveCredentialsCall ==
    \E name \in Names :
        Perform("removeCredentials", name, NoCreds, removeCredentials(file, name))

SetActiveCall ==
    \E name \in Names :
        Perform("setActive", name, NoCreds, setActive(file, name))

\* readConfig called directly; op.value is what it returns
ReadConfigCall ==
    /\ dir' = ensureConfigDir(dir)
    /\ op' = [OpRecord("readConfig", NULL, NoCreds, file,
                       Outcome(file, "config", FALSE, readConfig(file).threw))
              EXCEPT !.value = readConfig(file).value]
    /\ UNCHANGED <<file, rt, v, all, lib, procs>>

\* writeConfig(c) called directly with the caller's document
WriteConfigCall ==
    /\ dir' = ensureConfigDir(dir)
    /\ file' = writeConfig(rt.doc)
    /\ op' = OpRecord("writeConfig", NULL, NoCreds, file,
                      Outcome(writeConfig(rt.doc), "void", TRUE, FALSE))
    /\ rt' = [rt EXCEPT !.written = TRUE]
    /\ UNCHANGED <<v, all, lib, procs>>

\* the file is deleted, damaged or edited by hand outside the program
ExternalEdit ==
    \E f \in {Missing, Garbage, OtherJSON} :
        /\ file # f
        /\ file' = f
        /\ op' = [NoOp EXCEPT !.fn = "edit", !.pre = file]
        /\ rt' = [rt EXCEPT !.written = FALSE]
        /\ UNCHANGED <<dir, v, all, lib, procs>>

(***************************************************************************)
(* Documents a caller can build: own keys distinct and in property order   *)
(***************************************************************************)
SeqsUpTo(S, n) == UNION {[1..k -> S] : k \in 0..n}

WellOrdered(obj) ==
    /\ \A i, j \in 1..Len(obj) : i # j => obj[i][1] # obj[j][1]
    /\ \A i, j \in 1..Len(obj) :
          (i < j /\ IsArrayIndex(obj[j][1])) =>
              /\ IsArrayIndex(obj[i][1])
              /\ ArrayIndexOf[obj[i][1]] < ArrayIndexOf[obj[j][1]]

ObjectPool == {obj \in SeqsUpTo(Names \X CredsPool, MaxMembers) : WellOrdered(obj)}

ConfigPool == [shape : {"config"}, active : Names \cup {NULL}, credentials : ObjectPool]

\* deep equality of two documents: same active, same keys, same value per key
DeepEqual(c1, c2) ==
    /\ c1.shape = c2.shape
    /\ c1.active = c2.active
    /\ KeySet(c1.credentials) = KeySet(c2.credentials)
    /\ \A k \in KeySet(c1.credentials) :
          c1.credentials[OwnIndex(c1.credentials, k)][2]
              = c2.credentials[OwnIndex(c2.credentials, k)][2]

(***************************************************************************)
(* Validator: what the network does with one request                       *)
(***************************************************************************)
UNDEFINED == "<undefined>"

\* an error fetch throws: whether it is an Error, its message, and which of
\* the substrings the catch block looks for occur in the message
NoError == [isError |-> FALSE, message |-> "", mentions |-> {}]

TransportErrors ==
    { [isError |-> TRUE, message |-> "fetch failed", mentions |-> {}],
      [isError |-> TRUE, message |-> "connect ECONNREFUSED 127.0.0.1:8055",
       mentions |-> {"ECONNREFUSED"}],
      [isError |-> TRUE, message |-> "getaddrinfo ENOTFOUND nohost",
       mentions |-> {"ENOTFOUND"}],
      [isError |-> TRUE, message |-> "connect ETIMEDOUT 10.0.0.1:443",
       mentions |-> {"ETIMEDOUT"}],
      [isError |-> TRUE, message |-> "unable to verify the first certificate",
       mentions |-> {"certificate"}],
      [isError |-> FALSE, message |-> "aborted", mentions |-> {}] }

\* the error of response.json() on a body that is not JSON
SyntaxError ==
    [isError |-> TRUE, message |-> "Unexpected token < in JSON at position 0",
     mentions |-> {}]

\* the error of reading a property of null or undefined
PropertyTypeError ==
    [isError |-> TRUE, message |-> "Cannot read properties of undefined",
     mentions |-> {}]

NoUser == [id |-> UNDEFINED, email |-> UNDEFINED,
           first_name |-> UNDEFINED, last_name |-> UNDEFINED]

\* response bodies: not JSON; the JSON null; an object without data; an
\* object whose data is null; an object whose data is an object: empty, a
\* user record without names, a full user record
BodyPool ==
    { [kind |-> "notJSON", data |-> NoUser],
      [kind |-> "null", data |-> NoUser],
      [kind |-> "noData", data |-> NoUser],
      [kind |-> "dataNull", data |-> NoUser],
      [kind |-> "data", data |-> NoUser],
      [kind |-> "data", data |-> [id |-> "1", email |-> "a@b.com",
                                  first_name |-> UNDEFINED, last_name |-> UNDEFINED]],
      [kind |-> "data", data |-> [id |-> "2", email |-> "c@d.org",
                                  first_name |-> "Ada", last_name |-> "Byron"]] }

NoBody == [kind |-> "notJSON", data |-> NoUser]

StatusPool == {200, 204, 301, 400, 401, 403, 404, 500}

NetPool ==
    [kind : {"error"}, error : TransportErrors, status : {0}, body : {NoBody}]
    \cup [kind : {"response"}, error : {NoError}, status : StatusPool, body : BodyPool]

\* response.ok
ResponseOk(status) == status >= 200 /\ status <= 299

(***************************************************************************)
(* validateCredentials                                                     *)
(***************************************************************************)
RECURSIVE StripTrailingSlashes(_)
\* url.replace(/\/+$/, '')
StripTrailingSlashes(url) ==
    IF url # <<>> /\ url[Len(url)] = "/"
    THEN StripTrailingSlashes(SubSeq(url, 1, Len(url) - 1))
    ELSE url

\* the request fetch is given
Request(credentials) ==
    [endpoint |-> StripTrailingSlashes(credentials.url) \o <<"/users/me">>,
     method |-> "GET",
     authorization |-> <<"Bearer", credentials.token>>]

Includes(error, needle) == needle \in error.mentions

HttpFailureMessage_swapped(status) ==
    IF status = 401 THEN "Forbidden - Token lacks required permissions"
    ELSE IF status = 403 THEN "Unauthorized - Invalid or expired token"
    ELSE IF status = 404 THEN "Not found - Check if the URL is correct"
    ELSE "HTTP " \o ToString(status)

\* the message of a response that is not ok
HttpFailureMessage(status) ==
    IF status = 401 THEN "Unauthorized - Invalid or expired token"
    ELSE IF status = 403 THEN "Forbidden - Token lacks required permissions"
    ELSE IF status = 404 THEN "Not found - Check if the URL is correct"
    ELSE "HTTP " \o ToString(status)

\* the message the catch block gives an error
CatchMessage(error) ==
    IF ~error.isError THEN "Unknown error"
    ELSE IF Includes(error, "ECONNREFUSED") THEN "Connection refused - Server may be down"
    ELSE IF Includes(error, "ENOTFOUND") THEN "Host not found - Check the URL"
    ELSE IF Includes(error, "ETIMEDOUT") THEN "Connection timed out"
    ELSE IF Includes(error, "certificate") THEN "SSL certificate error"
    ELSE error.message

\* a settled validateCredentials promise: rejected with an error, or
\* fulfilled with a ValidationResult
Fulfilled(result) == [rejected |-> FALSE, result |-> result]

NoResult == [name |-> "", success |-> FALSE, message |-> ""]

Rejected == [rejected |-> TRUE, result |-> NoResult]

Caught(name, error) ==
    Fulfilled([name |-> name, success |-> FALSE, message |-> CatchMessage(error)])

\* the error thrown inside the try block, if any, once the response is ok
ThrownInTry(net) ==
    CASE net.kind = "error"                     -> {net.error}
      [] net.kind = "response" /\ ~ResponseOk(net.status) -> {}
      [] net.body.kind = "notJSON"              -> {SyntaxError}
      [] net.body.kind \in {"null", "noData", "dataNull"} -> {PropertyTypeError}
      [] OTHER                                  -> {}

validateCredentials_jsonOutsideTry(name, credentials, net) ==
    IF net.kind = "response" /\ ResponseOk(net.status) /\ ThrownInTry(net) # {}
    THEN Rejected
    ELSE IF ThrownInTry(net) # {}
    THEN Caught(name, CHOOSE e \in ThrownInTry(net) : TRUE)
    ELSE Fulfilled([name |-> name, success |-> FALSE,
                    message |-> HttpFailureMessage(net.status)])

validateCredentials_userIsBody(name, credentials, net) ==
    IF ThrownInTry(net) # {}
    THEN Caught(name, CHOOSE e \in ThrownInTry(net) : TRUE)
    ELSE IF ~ResponseOk(net.status)
    THEN Fulfilled([name |-> name, success |-> FALSE,
                    message |-> HttpFailureMessage(net.status)])
    ELSE Fulfilled([name |-> name, success |-> TRUE, message |-> "Valid",
                    user |-> NoUser])

\* validateCredentials(name, credentials) when the network answers net
validateCredentials(name, credentials, net) ==
    IF ThrownInTry(net) # {}
    THEN Caught(name, CHOOSE e \in ThrownInTry(net) : TRUE)
    ELSE IF ~ResponseOk(net.status)
    THEN Fulfilled([name |-> name, success |-> FALSE,
                    message |-> HttpFailureMessage(net.status)])
    ELSE Fulfilled([name |-> name, success |-> TRUE, message |-> "Valid",
                    user |-> [id |-> net.body.data.id,
                              email |-> net.body.data.email,
                              first_name |-> net.body.data.first_name,
                              last_name |-> net.body.data.last_name]])

NoNet == [kind |-> "error", error |-> NoError, status |-> 0, body |-> NoBody]

NoRequest == [endpoint |-> <<>>, method |-> "", authorization |-> <<>>]

VIdle == [pc |-> "idle", name |-> "", credentials |-> NoCreds, request |-> NoRequest,
          net |-> NoNet, settled |-> Rejected]

\* the call runs to its await of fetch
ValidateCall ==
    /\ v.pc \in {"idle", "done"}
    /\ \E name \in Names, credentials \in CredsPool :
          v' = [VIdle EXCEPT !.pc = "awaiting", !.name = name,
                             !.credentials = credentials,
                             !.request = Request(credentials)]
    /\ UNCHANGED <<storeVars, all, lib, procs>>

\* the network answers and the call runs to its end
ValidateSettle ==
    /\ v.pc = "awaiting"
    /\ \E net \in NetPool :
          v' = [v EXCEPT !.pc = "done", !.net = net,
                         !.settled = validateCredentials(v.name, v.credentials, net)]
    /\ UNCHANGED <<storeVars, all, lib, procs>>

(***************************************************************************)
(* validateAllCredentials                                                  *)
(***************************************************************************)
\* Object.entries(credentialsMap)
ObjectEntries(obj) == obj

\* the answers of the network the entries of a batch are tried against: a
\* transport failure, a rejection, an accepted token, a body that is not JSON
NetPoolBatch ==
    { net \in NetPool :
        \/ net.kind = "error" /\ "ECONNREFUSED" \in net.error.mentions
        \/ net.kind = "response" /\ net.status = 401 /\ net.body.kind = "null"
        \/ net.kind = "response" /\ net.status = 200 /\ net.body.kind = "data"
                                 /\ net.body.data.id = "1"
        \/ net.kind = "response" /\ net.status = 200 /\ net.body.kind = "notJSON" }

BatchPool == {obj \in SeqsUpTo(Names \X CredsPool, MaxBatch) : WellOrdered(obj)}

Unsettled == [done |-> FALSE, net |-> NoNet, settled |-> Rejected]

BatchIdle == [pc |-> "idle", map |-> <<>>, entries |-> <<>>, slots |-> <<>>,
              order |-> <<>>, results |-> <<>>]

PromiseAll_completionOrder(slots, order) ==
    [i \in 1..Len(slots) |-> slots[order[i]].settled.result]

\* the value of Promise.all once every promise is fulfilled: the results in
\* the order of the promises given, whatever the order they settled in
PromiseAll(slots, order) ==
    [i \in 1..Len(slots) |-> slots[i].settled.result]

\* entries.map(...) starts one validateCredentials per entry; each runs to
\* its await of fetch
ValidateAllCall ==
    /\ all.pc = "idle"
    /\ \E credentialsMap \in BatchPool :
          all' = [BatchIdle EXCEPT
                     !.pc = "pending",
                     !.map = credentialsMap,
                     !.entries = ObjectEntries(credentialsMap),
                     !.slots = [i \in 1..Len(credentialsMap) |-> Unsettled]]
    /\ UNCHANGED <<storeVars, v, lib, procs>>

\* the request of one entry is answered and its validateCredentials settles
EntrySettle ==
    /\ all.pc = "pending"
    /\ \E i \in 1..Len(all.slots), net \in NetPoolBatch :
          /\ ~all.slots[i].done
          /\ all' = [all EXCEPT
                        !.slots[i] = [done |-> TRUE, net |-> net,
                                      settled |-> validateCredentials(
                                          all.entries[i][1], all.entries[i][2], net)],
                        !.order = Append(@, i)]
    /\ UNCHANGED <<storeVars, v, lib, procs>>

ValidateAllAwait_noJoin ==
    /\ all.pc = "pending"
    /\ \E i \in 1..Len(all.slots) : all.slots[i].done
    /\ all' = [all EXCEPT !.pc = "resolved",
                          !.results = PromiseAll(all.slots, all.order)]
    /\ UNCHANGED <<storeVars, v, lib, procs>>

\* await Promise.all: rejected as soon as one promise is rejected, fulfilled
\* once every promise is fulfilled
ValidateAllAwait ==
    LET anyRejected == \E i \in 1..Len(all.slots) :
                           all.slots[i].done /\ all.slots[i].settled.rejected
        allDone == \A i \in 1..Len(all.slots) : all.slots[i].done
    IN  /\ all.pc = "pending"
        /\ IF anyRejected THEN TRUE ELSE allDone
        /\ all' = IF anyRejected
                  THEN [all EXCEPT !.pc = "rejected"]
                  ELSE [all EXCEPT !.pc = "resolved",
                                   !.results = PromiseAll(all.slots, all.order)]
        /\ UNCHANGED <<storeVars, v, lib, procs>>

(***************************************************************************)
(* Read projections and the library's getActive                            *)
(***************************************************************************)
\* what obj[k] gives for an inherited k: the prototype object or a function,
\* whose url and token are undefined
InheritedObject == [url |-> <<>>, token |-> UNDEFINED]

\* obj[k], for a k whose lookup is truthy
GetProp(obj, k) == IF HasOwn(obj, k) THEN obj[OwnIndex(obj, k)][2] ELSE InheritedObject

NoActive == [isNull |-> TRUE, name |-> NULL, credentials |-> NoCreds]

\* getActiveCredentials: null, or {name, credentials}
getActiveCredentials(f) ==
    LET config == readConfig(f).value
    IN  IF \/ config.active = NULL
           \/ ~GetIsTruthy(config.credentials, config.active)
        THEN NoActive
        ELSE [isNull |-> FALSE, name |-> config.active,
              credentials |-> GetProp(config.credentials, config.active)]

\* getActive: null, or the active set as a CredentialSelection
getActive(f) ==
    LET active == getActiveCredentials(f)
    IN  IF active.isNull THEN NoSelection
        ELSE [isNull |-> FALSE, name |-> active.name,
              url |-> active.credentials.url,
              token |-> active.credentials.token, source |-> "saved"]

\* getActive called with or without {skipConfirmation: true}; the function
\* declares no parameter and calls no prompt
GetActiveCall ==
    \E skipConfirmation \in BOOLEAN :
        /\ dir' = ensureConfigDir(dir)
        /\ lib' = [fn |-> "getActive", skipConfirmation |-> skipConfirmation,
                   prompted |-> FALSE, pre |-> file, ret |-> getActive(file)]
        /\ UNCHANGED <<file, op, rt, v, all, procs>>

Mutation == {"addCredentials", "removeCredentials", "setActive"}

\* the outcome of the mutation called fn on file content f
MutationOn(fn, f, name, credentials) ==
    CASE fn = "addCredentials"    -> addCredentials(f, name, credentials)
      [] fn = "removeCredentials" -> removeCredentials(f, name)
      [] OTHER                    -> setActive(f, name)

(***************************************************************************)
(* Two processes on the same file.  A store function is synchronous inside *)
(* its process, but nothing orders the readFileSync and the writeFileSync  *)
(* of one process against those of the other.                              *)
(***************************************************************************)
Procs == {1, 2}

\* names and credentials the two processes use
ConcNames == {"a", "b", "__proto__"}

ProcIdle == [pc |-> "idle", fn |-> "none", name |-> NULL, credentials |-> NoCreds,
             snapshot |-> Missing]

\* lastWriter: the process whose writeFileSync came last (0: neither yet)
ProcsIdle == [p |-> [q \in Procs |-> ProcIdle], lastWriter |-> 0]

\* the mutations a process may call
ConcCalls ==
    [fn : {"addCredentials"}, name : ConcNames, credentials : CredsPool]
    \cup [fn : {"removeCredentials", "setActive"}, name : ConcNames,
          credentials : {NoCreds}]

\* a mutation called and finished while no other process is inside one
SeqCall ==
    /\ procs = ProcsIdle
    /\ \E c \in ConcCalls :
          Perform(c.fn, c.name, c.credentials,
                  MutationOn(c.fn, file, c.name, c.credentials))

\* process q calls a mutation, which runs through its readConfig
ProcRead(q) ==
    /\ procs.p[q].pc = "idle"
    /\ \E c \in ConcCalls :
          procs' = [procs EXCEPT !.p[q] = [pc |-> "read", fn |-> c.fn, name |-> c.name,
                                           credentials |-> c.credentials,
                                           snapshot |-> file]]
    /\ dir' = ensureConfigDir(dir)
    /\ UNCHANGED <<file, op, rt, v, all, lib>>

ProcFinish_rereads(q) ==
    LET me == procs.p[q]
        out == MutationOn(me.fn, file, me.name, me.credentials)
    IN  /\ me.pc = "read"
        /\ file' = IF out.wrote THEN out.file ELSE file
        /\ op' = OpRecord(me.fn, me.name, me.credentials, me.snapshot, out)
        /\ procs' = [procs EXCEPT !.p[q].pc = "done",
                                  !.lastWriter = IF out.wrote THEN q ELSE @]
        /\ UNCHANGED <<dir, rt, v, all, lib>>

\* process q runs the rest of its mutation on the config it read: it returns
\* false, or writes the whole document with writeConfig and returns
ProcFinish(q) ==
    LET me == procs.p[q]
        out == MutationOn(me.fn, me.snapshot, me.name, me.credentials)
    IN  /\ me.pc = "read"
        /\ file' = IF out.wrote THEN out.file ELSE file
        /\ op' = OpRecord(me.fn, me.name, me.credentials, me.snapshot, out)
        /\ procs' = [procs EXCEPT !.p[q].pc = "done",
                                  !.lastWriter = IF out.wrote THEN q ELSE @]
        /\ UNCHANGED <<dir, rt, v, all, lib>>

(***************************************************************************)
(* Specifications                                                          *)
(***************************************************************************)
StoreInit ==
    /\ dir = FALSE
    /\ file = Missing
    /\ op = NoOp
    /\ rt = [doc |-> getDefaultConfig, written |-> FALSE]
    /\ v = VIdle
    /\ all = BatchIdle
    /\ lib = LibIdle
    /\ procs = ProcsIdle

Init == StoreInit

\* addCredentials and removeCredentials only, from the empty document
NextAR == AddCredentialsCall \/ RemoveCredentialsCall

SpecAR == Init /\ [][NextAR]_vars

\* the three mutations, from the empty document
Next == AddCredentialsCall \/ RemoveCredentialsCall \/ SetActiveCall

Spec == Init /\ [][Next]_vars

\* the store on a file that can also be missing, damaged or hand-edited
NextFS ==
    \/ AddCredentialsCall
    \/ RemoveCredentialsCall
    \/ SetActiveCall
    \/ ReadConfigCall
    \/ ExternalEdit

SpecFS == Init /\ [][NextFS]_vars

\* writeConfig(c) and readConfig() for every document c of the pool, over
\* any earlier file content
InitRT ==
    /\ dir \in BOOLEAN
    /\ file \in {Missing, Garbage, OtherJSON}
    /\ op = NoOp
    /\ rt \in [doc : ConfigPool, written : {FALSE}]
    /\ v = VIdle
    /\ all = BatchIdle
    /\ lib = LibIdle
    /\ procs = ProcsIdle

NextRT == WriteConfigCall \/ ReadConfigCall

SpecRT == InitRT /\ [][NextRT]_vars

\* the library's getActive on a store that is added to, removed from and
\* switched
NextLib == AddCredentialsCall \/ RemoveCredentialsCall \/ SetActiveCall \/ GetActiveCall

SpecLib == Init /\ [][NextLib]_vars

\* a store built up by calls one after the other, then one mutation by each
\* of two processes, their reads and writes in any order
NextConc == SeqCall \/ (\E q \in Procs : ProcRead(q)) \/ (\E q \in Procs : ProcFinish(q))

SpecConc == Init /\ [][NextConc]_vars

\* single validations, each against any answer of the network
NextV == ValidateCall \/ ValidateSettle

SpecV == Init /\ [][NextV]_vars

\* batches of validations whose requests are answered in any order
NextAll == ValidateAllCall \/ EntrySettle \/ ValidateAllAwait

SpecAll == Init /\ [][NextAll]_vars

(***************************************************************************)
(* The persisted document, as the next read sees it                        *)
(***************************************************************************)
Doc(f) == readConfig(f).value

ActiveValid(f) == Doc(f).active = NULL \/ HasOwn(Doc(f).credentials, Doc(f).active)

(***************************************************************************)
(* Claims about the store                                                  *)
(***************************************************************************)
\* C1: from the empty document, after every addCredentials or
\* removeCredentials call, with any names, the persisted active is null or a
\* key of the persisted credentials.
C1_ActiveIsNullOrStoredKey == ActiveValid(file)

C3_AddSetsActiveOnlyForFirst ==
    op.fn = "addCredentials" =>
        /\ Doc(op.pre).credentials = <<>> => Doc(file).active = op.name
        /\ (Len(Doc(op.pre).credentials) = 1 /\ ~HasOwn(Doc(op.pre).credentials, op.name))
              => Doc(file).active = Doc(op.pre).active
        /\ Doc(file).active # Doc(op.pre).active
              => /\ Len(Doc(file).credentials) = 1
                 /\ Doc(file).active = Doc(file).credentials[1][1]

\* C4: setActive(name) with name not a stored key returns false and leaves
\* the persisted document unchanged; with a stored name it returns true and
\* active is afterwards that name.
C4_SetActiveOnlyStored ==
    op.fn = "setActive" =>
        IF HasOwn(Doc(op.pre).credentials, op.name)
        THEN op.ret = "true" /\ Doc(file).active = op.name
        ELSE op.ret = "false" /\ Doc(file) = Doc(op.pre)

\* C5: removeCredentials(name) with name absent returns false, writes
\* nothing and leaves the document unchanged; with name present it returns
\* true, name is no longer a key and every other entry is unchanged.
C5_RemoveAbsentIsNoOp ==
    op.fn = "removeCredentials" =>
        IF HasOwn(Doc(op.pre).credentials, op.name)
        THEN /\ op.ret = "true"
             /\ Doc(file).credentials = DeleteProp(Doc(op.pre).credentials, op.name)
        ELSE /\ op.ret = "false"
             /\ ~op.wrote
             /\ file = op.pre

\* C6: readConfig never raises and returns the default document whenever the
\* file is missing or its content is not a {active, credentials} document;
\* every mutation then behaves as on the empty document.
C6_ReadDegradesToDefault ==
    /\ op.fn = "readConfig" =>
          /\ ~op.threw
          /\ op.pre.kind # "json" => op.value = getDefaultConfig
    /\ (op.fn \in Mutation /\ op.pre.kind # "json") =>
          /\ ~op.threw
          /\ file = MutationOn(op.fn, Missing, op.name, op.credentials).file
          /\ op.ret = MutationOn(op.fn, Missing, op.name, op.credentials).ret

\* C7: writeConfig(c) followed by readConfig(), with no write in between,
\* returns a document deeply equal to c.
C7_RoundTrip ==
    (op.fn = "readConfig" /\ rt.written) => DeepEqual(op.value, rt.doc)

C7_Witness ==
    /\ op.fn = "readConfig"
    /\ rt.written
    /\ Len(rt.doc.credentials) = 2
    /\ HasOwn(rt.doc.credentials, "__proto__")
    /\ rt.doc.active # NULL
    /\ op.value = rt.doc

(***************************************************************************)
(* Claims about the validator                                              *)
(***************************************************************************)
Failed(net) == net.kind = "error" \/ ~ResponseOk(net.status) \/ ThrownInTry(net) # {}

\* C8: validateCredentials never throws: for a non-success status, a
\* transport failure or a failure reading the body, its promise is fulfilled
\* with a result that carries the input name, with success false on every
\* failure.
C8_NeverThrows ==
    v.pc = "done" =>
        /\ ~v.settled.rejected
        /\ v.settled.result.name = v.name
        /\ Failed(v.net) => v.settled.result.success = FALSE

C8_Witness ==
    /\ v.pc = "done"
    /\ v.net.kind = "response"
    /\ v.net.status = 200
    /\ v.net.body.kind = "dataNull"
    /\ v.settled.result.success = FALSE
    /\ v.settled.result.name = "__proto__"

\* C10: for a non-success status the result has success false, no user
\* field, and the message chosen by status: 401, 403 and 404 their own
\* text, any other code c the text "HTTP c".
C10_StatusMessages ==
    (v.pc = "done" /\ v.net.kind = "response" /\ ~ResponseOk(v.net.status)) =>
        /\ ~v.settled.rejected
        /\ v.settled.result.success = FALSE
        /\ "user" \notin DOMAIN v.settled.result
        /\ v.settled.result.message =
              CASE v.net.status = 401 -> "Unauthorized - Invalid or expired token"
                [] v.net.status = 403 -> "Forbidden - Token lacks required permissions"
                [] v.net.status = 404 -> "Not found - Check if the URL is correct"
                [] v.net.status = 301 -> "HTTP 301"
                [] v.net.status = 400 -> "HTTP 400"
                [] v.net.status = 500 -> "HTTP 500"
                [] OTHER -> "HTTP " \o ToString(v.net.status)

C10_Witness ==
    /\ v.pc = "done"
    /\ v.net.kind = "response"
    /\ v.net.status = 403
    /\ v.settled.result.message = "Forbidden - Token lacks required permissions"

\* C9: validateAllCredentials(m) returns one result per entry of m, the
\* i-th carrying the name of the i-th key of m, in whatever order the
\* requests were answered.
C9_ResultsInInputOrder ==
    all.pc = "resolved" =>
        /\ Len(all.results) = Len(all.map)
        /\ \A i \in 1..Len(all.map) : all.results[i].name = ObjectKeys(all.map)[i]

C9_Witness ==
    /\ all.pc = "resolved"
    /\ Len(all.map) = 2
    /\ all.order = <<2, 1>>
    /\ all.results[1].name = "7"
    /\ all.results[2].name = "a"

C13_JoinedAndIndependent ==
    /\ all.pc # "rejected"
    /\ all.pc = "resolved" =>
          \A i \in 1..Len(all.entries) :
              /\ all.slots[i].done
              /\ all.results[i] =
                    validateCredentials(all.entries[i][1], all.entries[i][2],
                                        all.slots[i].net).result

C13_Witness ==
    /\ all.pc = "resolved"
    /\ Len(all.entries) = 2
    /\ all.slots[1].net.kind = "error"
    /\ all.slots[2].net.kind = "response"
    /\ all.results[1].success = FALSE
    /\ all.results[2].success = TRUE
    /\ all.order = <<2, 1>>

(***************************************************************************)
(* Claims about the library                                                *)
(***************************************************************************)
\* C12: getActive returns the active credential set only after a
\* confirmation prompt was shown and accepted, or with skipConfirmation:
\* true; it returns null when no active credentials are set.
C12_GetActiveConfirms ==
    lib.fn = "getActive" =>
        /\ ~lib.ret.isNull => (lib.prompted \/ lib.skipConfirmation)
        /\ Doc(lib.pre).active = NULL => lib.ret.isNull

(***************************************************************************)
(* Claims about two processes, and about active and emptiness              *)
(***************************************************************************)
\* C14: with the reads and writes of two processes interleaved, the
\* persisted document is the one the last writer derived from its own read,
\* so what the other process wrote in between is lost.
C14_LastWriterWins ==
    procs.lastWriter # 0 =>
        LET w == procs.p[procs.lastWriter]
        IN  file = MutationOn(w.fn, w.snapshot, w.name, w.credentials).file

\* both processes read the empty store, both added a name, one name is gone
C14_Witness ==
    /\ procs.p[1].pc = "done"
    /\ procs.p[2].pc = "done"
    /\ procs.p[1].fn = "addCredentials"
    /\ procs.p[2].fn = "addCredentials"
    /\ procs.p[1].name = "a"
    /\ procs.p[2].name = "b"
    /\ procs.p[1].snapshot = Missing
    /\ procs.p[2].snapshot = Missing
    /\ procs.lastWriter = 2
    /\ KeySet(Doc(file).credentials) = {"b"}

\* C15: from the empty document, after every addCredentials,
\* removeCredentials and setActive call, active is null exactly when
\* credentials is empty, and getActiveCredentials() is non-null exactly when
\* a credential set is stored.
C15_ActiveNullIffEmpty ==
    /\ (Doc(file).active = NULL) <=> (Doc(file).credentials = <<>>)
    /\ getActiveCredentials(file).isNull <=> (Doc(file).credentials = <<>>)

\* C16: every document persisted while two processes interleave the reads
\* and writes of their mutations has active null or a key of its credentials.
C16_PersistedActiveValid ==
    file.kind = "json" =>
        \/ file.active = NULL
        \/ \E i \in 1..Len(file.members) : file.members[i][1] = file.active

====
